---- MODULE Spec2Model ----
(***************************************************************************)
(* Library back end: resource stock counters, loans and the handlers that  *)
(* change them.  The two document collections are modelled as partial      *)
(* functions from ObjectId to document; every request is run by a process  *)
(* whose position (pc) advances by one database call per step, so that     *)
(* handlers issuing several awaits interleave as they do on the server.    *)
(***************************************************************************)
EXTENDS Integers, FiniteSets, Sequences, TLC

\* ---------------------------------------------------------------- bounds
MaxResources == 2      \* resources ever created
MaxLoans == 2          \* loans ever created
MaxQuantity == 2       \* largest totalQuantity / quantity submitted
MaxCount == 3          \* largest currentLoansCount reached by direct increments
MaxExtension == 1      \* days by which renewals extend one loan
MaxCalls == 3          \* concurrent counter calls that are logged
MaxSmallResources == 1  \* resources created where the catalogue is kept small
MaxMarked == 2         \* units of one resource marked lost, damaged or in maintenance
MaxConfigs == 3        \* system configurations ever stored
MaxTime == 6           \* latest updatedAt written to a system configuration
MaxRaceTime == 4       \* latest updatedAt written where every endpoint runs concurrently
MaxPersonLoans == 4    \* loans ever created where one person borrows concurrently

\* ------------------------------------------------------ program constants
DefaultLoanDays == 15
maxActiveLoans == 3
maxQuantityPerLoan == 5

\* ------------------------------------------------------------ identifiers
\* An ObjectId is a positive number; MalformedId is a string that is not a
\* 24-digit hexadecimal ObjectId.
MalformedId == 0

isValidObjectId(id) == id # MalformedId

Procs == {"p1", "p2"}
Persons == {1}
Users == {1}
LoanStatusNames == {"active", "overdue", "returned", "lost"}

ResourceIds == 1..MaxResources
LoanIds == 1..MaxLoans
\* ids a caller may submit: malformed, stored or once stored, never stored
ResourceIdInputs == {MalformedId} \cup ResourceIds \cup {MaxResources + 1}
LoanIdInputs == {MalformedId} \cup LoanIds \cup {MaxLoans + 1}

\* the calls of the stock counter, by direction and quantity
CallKinds == {"inc", "dec"} \X (1..MaxQuantity)

NullDate == "null"
SomeDate == "date"

VARIABLES
    resources,   \* collection 'resources':  ObjectId -> document
    loans,       \* collection 'loans':      ObjectId -> document
    nextId,      \* ObjectIds generated so far, per collection
    pc,          \* position of each request process
    req,         \* the request a process is serving: arguments and locals
    last,        \* the response sent last: operation, id, outcome
    calls,       \* counter calls issued so far, per resource, kind and quantity
    configs      \* collection 'system_configs': ObjectId -> document

vars == <<resources, loans, nextId, pc, req, last, calls, configs>>

NoReq == [op |-> "none"]

Found(coll, id) == id \in DOMAIN coll

Max(a, b) == IF a >= b THEN a ELSE b

\* ===================================================== ResourceRepository

\* an increment by one loan instead of by its quantity
incrementCurrentLoans_byOne(res, resourceId, quantity) ==
    IF ~isValidObjectId(resourceId) THEN [ok |-> FALSE, res |-> res]
    ELSE IF Found(res, resourceId)
         THEN [ok |-> TRUE,
               res |-> [res EXCEPT ![resourceId].currentLoansCount = @ + 1]]
         ELSE [ok |-> FALSE, res |-> res]

\* findByIdAndUpdate(resourceId, {$inc: {currentLoansCount: quantity, ...}});
\* the statistics fields totalLoans and lastLoanDate, which no operation
\* reads, are left out of the document
incrementCurrentLoans(res, resourceId, quantity) ==
    IF ~isValidObjectId(resourceId) THEN [ok |-> FALSE, res |-> res]
    ELSE IF Found(res, resourceId)
         THEN [ok |-> TRUE,
               res |-> [res EXCEPT ![resourceId].currentLoansCount = @ + quantity]]
         ELSE [ok |-> FALSE, res |-> res]

\* first write of decrementCurrentLoans: $inc by -quantity, returns the new
\* document (result), or null
decrementInc(res, resourceId, quantity) ==
    IF ~isValidObjectId(resourceId) THEN [found |-> FALSE, res |-> res]
    ELSE IF Found(res, resourceId)
         THEN [found |-> TRUE,
               res |-> [res EXCEPT ![resourceId].currentLoansCount = @ - quantity]]
         ELSE [found |-> FALSE, res |-> res]

\* second write of decrementCurrentLoans: {currentLoansCount: 0}
decrementReset(res, resourceId) ==
    IF Found(res, resourceId)
    THEN [res EXCEPT ![resourceId].currentLoansCount = 0]
    ELSE res

\* decrementCurrentLoans run without interruption: both writes
decrementCurrentLoans(res, resourceId, quantity) ==
    LET out == decrementInc(res, resourceId, quantity) IN
    IF out.found /\ out.res[resourceId].currentLoansCount < 0
    THEN decrementReset(out.res, resourceId)
    ELSE out.res

\* a sync that adds the real total to the stored count instead of replacing it
syncCurrentLoansCount_adds(res, resourceId, realCurrentLoans) ==
    IF ~isValidObjectId(resourceId) THEN [ok |-> FALSE, res |-> res]
    ELSE IF Found(res, resourceId)
         THEN [ok |-> TRUE,
               res |-> [res EXCEPT ![resourceId].currentLoansCount =
                                        Max(0, @ + realCurrentLoans)]]
         ELSE [ok |-> FALSE, res |-> res]

\* findByIdAndUpdate(resourceId, {currentLoansCount: Math.max(0, realCurrentLoans)})
syncCurrentLoansCount(res, resourceId, realCurrentLoans) ==
    IF ~isValidObjectId(resourceId) THEN [ok |-> FALSE, res |-> res]
    ELSE IF Found(res, resourceId)
         THEN [ok |-> TRUE,
               res |-> [res EXCEPT ![resourceId].currentLoansCount =
                                        Max(0, realCurrentLoans)]]
         ELSE [ok |-> FALSE, res |-> res]

\* the checks of updateTotalQuantity that precede its write
updateTotalQuantityAllowed(res, resourceId, newTotalQuantity) ==
    /\ isValidObjectId(resourceId)
    /\ ~(newTotalQuantity < 1)
    /\ Found(res, resourceId)
    /\ ~(newTotalQuantity < res[resourceId].currentLoansCount)

\* findByIdAndUpdate(resourceId, {totalQuantity: newTotalQuantity})
updateTotalQuantityWrite(res, resourceId, newTotalQuantity) ==
    IF Found(res, resourceId)
    THEN [res EXCEPT ![resourceId].totalQuantity = newTotalQuantity]
    ELSE res

\* findByIdAndUpdate(id, {available})
updateAvailabilityWrite(res, id, available) ==
    IF Found(res, id) THEN [res EXCEPT ![id].available = available] ELSE res

\* the three per-state unit counters of a resource
UnitKinds == {"lostQuantity", "damagedQuantity", "maintenanceQuantity"}

\* units neither lent nor lost, damaged or in maintenance, as computed by
\* markUnitsAsLost, markUnitsAsDamaged and markUnitsInMaintenance
unmarkedQuantity(doc) ==
    doc.totalQuantity - doc.currentLoansCount - doc.lostQuantity
        - doc.damagedQuantity - doc.maintenanceQuantity

\* the read and check of markUnitsAs...: enough units are available
markUnitsAllowed(res, resourceId, quantity) ==
    /\ isValidObjectId(resourceId)
    /\ Found(res, resourceId)
    /\ ~(unmarkedQuantity(res[resourceId]) < quantity)

\* the read and check of restore...Units: the counter covers the quantity
restoreUnitsAllowed(res, kind, resourceId, quantity) ==
    /\ isValidObjectId(resourceId)
    /\ Found(res, resourceId)
    /\ ~(res[resourceId][kind] < quantity)

\* findByIdAndUpdate(resourceId, {$inc: {<kind>: delta}})
incUnits(res, kind, resourceId, delta) ==
    IF Found(res, resourceId)
    THEN [res EXCEPT ![resourceId][kind] = @ + delta]
    ELSE res

\* ========================================================= LoanRepository

\* loans of the resource matched by {resourceId, returnedDate: null}
UnreturnedLoansOf(lns, resourceId) ==
    {l \in DOMAIN lns : lns[l].resourceId = resourceId /\ lns[l].returnedDate = NullDate}

RECURSIVE SumQuantity(_, _)
SumQuantity(lns, S) ==
    IF S = {} THEN 0
    ELSE LET l == CHOOSE x \in S : TRUE
         IN lns[l].quantity + SumQuantity(lns, S \ {l})

\* aggregate $match {resourceId, returnedDate: null}, $group $sum quantity
getTotalQuantityLoanedByResource(lns, resourceId) ==
    IF ~isValidObjectId(resourceId) THEN 0
    ELSE SumQuantity(lns, UnreturnedLoansOf(lns, resourceId))

countActiveByResource(lns, resourceId) ==
    IF ~isValidObjectId(resourceId) THEN 0
    ELSE Cardinality(UnreturnedLoansOf(lns, resourceId))

countActiveByPerson(lns, personId) ==
    IF ~isValidObjectId(personId) THEN 0
    ELSE Cardinality({l \in DOMAIN lns :
                        lns[l].personId = personId /\ lns[l].returnedDate = NullDate})

\* ============================================================ LoanService

\* LoanService.canPersonBorrow: loans of the person in status 'active' are
\* counted against the limit (no loan is past due in the modelled window)
canPersonBorrow(lns, personId) ==
    LET activeLoans == {l \in DOMAIN lns :
                          lns[l].personId = personId /\ lns[l].status = "active"}
    IN Cardinality(activeLoans) < maxActiveLoans

\* quantity still free for lending, from the unreturned loans of the resource
availableQuantity(res, lns, resourceId) ==
    Max(0, res[resourceId].totalQuantity - getTotalQuantityLoanedByResource(lns, resourceId))

\* LoanValidationService.validateLoanCreation: passes or throws BadRequest
validateLoanCreation(res, lns, personId, resourceId, quantity) ==
    /\ isValidObjectId(personId)
    /\ isValidObjectId(resourceId)
    /\ personId \in Persons
    /\ canPersonBorrow(lns, personId)
    /\ Found(res, resourceId)
    /\ res[resourceId].available
    /\ quantity >= 1
    /\ quantity <= maxQuantityPerLoan
    /\ quantity <= availableQuantity(res, lns, resourceId)

\* loanData of LoanService.create as stored by loanRepository.create; dates
\* are days counted from the loan date
NewLoan(personId, resourceId, quantity, userId) ==
    [personId |-> personId,
     resourceId |-> resourceId,
     quantity |-> quantity,
     status |-> "active",
     dueDate |-> DefaultLoanDays,
     returnedDate |-> NullDate,
     returnDate |-> NullDate,
     loanedBy |-> userId,
     renewedBy |-> MalformedId,
     renewedAt |-> NullDate]

\* updateData of ReportsService.updateLoanStatus applied to one loan
applyStatusUpdate(loan, status) ==
    IF status = "returned"
    THEN [loan EXCEPT !.status = status, !.returnDate = SomeDate]
    ELSE [loan EXCEPT !.status = status]

\* loanModel.findByIdAndUpdate(loanId, updateData)
updateLoanStatus(lns, loanId, status) ==
    IF Found(lns, loanId)
    THEN [lns EXCEPT ![loanId] = applyStatusUpdate(@, status)]
    ELSE lns

\* loanModel.updateMany({_id: {$in: loanIds}}, updateData)
updateMultipleLoanStatus(lns, loanIds, status) ==
    [l \in DOMAIN lns |->
        IF l \in loanIds THEN applyStatusUpdate(lns[l], status) ELSE lns[l]]

\* loanRepository.update(id, {dueDate, renewedBy, renewedAt})
renewUpdate(lns, id, newDueDate, userId) ==
    IF Found(lns, id)
    THEN [lns EXCEPT ![id].dueDate = newDueDate,
                     ![id].renewedBy = userId,
                     ![id].renewedAt = SomeDate]
    ELSE lns

\* resourceRepository.delete(id)
deleteResource(res, id) ==
    [r \in DOMAIN res \ {id} |-> res[r]]

\* ============================================================== requests

Init ==
    /\ resources = <<>>
    /\ loans = <<>>
    /\ nextId = [resources |-> 0, loans |-> 0]
    /\ pc = [p \in Procs |-> "idle"]
    /\ req = [p \in Procs |-> NoReq]
    /\ last = NoReq
    /\ calls = [r \in ResourceIds |-> [k \in CallKinds |-> 0]]
    /\ configs = <<>>

\* what a caller sees of a finished request r: the operation, the id it was
\* given and the outcome, and for a success the fields of the returned loan
ResponseFields == {"op", "id", "status", "result", "warned",
                   "loanId", "resourceId", "quantity", "stockUpdated"}

Response(r) ==
    LET succeeded == \/ ("status" \in DOMAIN r /\ r.status = "ok")
                     \/ ("result" \in DOMAIN r /\ r.result = TRUE)
        shown == IF succeeded THEN DOMAIN r \cap ResponseFields
                 ELSE DOMAIN r \cap {"op", "id", "status", "result"}
    IN [f \in shown |-> r[f]]

\* the handler of p ends and responds to the request r
Finish(p, r) ==
    /\ pc' = [pc EXCEPT ![p] = "idle"]
    /\ req' = [req EXCEPT ![p] = NoReq]
    /\ last' = Response(r)

\* the handler of p awaits its next database call
Goto(p, label, r) ==
    /\ pc' = [pc EXCEPT ![p] = label]
    /\ req' = [req EXCEPT ![p] = r]
    /\ last' = last

\* resourceData that stores totalQuantity as submitted, without the default
NewResource_noDefault(totalQuantity) ==
    [totalQuantity |-> totalQuantity,
     currentLoansCount |-> 0,
     lostQuantity |-> 0,
     damagedQuantity |-> 0,
     maintenanceQuantity |-> 0,
     available |-> TRUE]

\* document stored by ResourceService.create (schema defaults for counters)
NewResource(totalQuantity) ==
    [totalQuantity |-> IF totalQuantity = 0 THEN 1 ELSE totalQuantity,
     currentLoansCount |-> 0,
     lostQuantity |-> 0,
     damagedQuantity |-> 0,
     maintenanceQuantity |-> 0,
     available |-> TRUE]

\* ResourceService.create; totalQuantity 0 stands for an omitted field,
\* refsOk for the outcome of validateResourceReferences
ResourceCreateCall(p, totalQuantity, refsOk) ==
    /\ pc[p] = "idle"
    /\ LET r == [op |-> "resourceCreate", totalQuantity |-> totalQuantity] IN
         IF ~refsOk
         THEN /\ Finish(p, r @@ [status |-> "BadRequest"])
              /\ UNCHANGED <<resources, loans, nextId, calls, configs>>
         ELSE /\ nextId.resources < MaxResources
              /\ LET id == nextId.resources + 1 IN
                   /\ resources' = resources @@ (id :> NewResource(totalQuantity))
                   /\ nextId' = [nextId EXCEPT !.resources = id]
                   /\ Finish(p, r @@ [status |-> "ok", id |-> id])
              /\ UNCHANGED <<loans, calls, configs>>

ResourceCreate(p) ==
    \E totalQuantity \in 0..MaxQuantity, refsOk \in BOOLEAN :
        ResourceCreateCall(p, totalQuantity, refsOk)

\* ResourceRepository.incrementCurrentLoans called on its own
IncrementCurrentLoansCall(p, resourceId, quantity) ==
    /\ pc[p] = "idle"
    /\ Found(resources, resourceId) =>
           resources[resourceId].currentLoansCount + quantity <= MaxCount
    /\ LET out == incrementCurrentLoans(resources, resourceId, quantity) IN
         /\ resources' = out.res
         /\ Finish(p, [op |-> "incrementCurrentLoans", id |-> resourceId,
                       quantity |-> quantity, result |-> out.ok])
    /\ UNCHANGED <<loans, nextId, configs>>

IncrementCurrentLoans(p) ==
    /\ \E resourceId \in ResourceIdInputs, quantity \in 1..MaxQuantity :
          IncrementCurrentLoansCall(p, resourceId, quantity)
    /\ UNCHANGED calls

\* ResourceRepository.decrementCurrentLoans, up to its first write
DecrementCurrentLoansCall(p, resourceId, quantity) ==
    /\ pc[p] = "idle"
    /\ LET out == decrementInc(resources, resourceId, quantity)
           r == [op |-> "decrementCurrentLoans", id |-> resourceId,
                 quantity |-> quantity]
       IN
         /\ resources' = out.res
         /\ IF out.found /\ out.res[resourceId].currentLoansCount < 0
            THEN Goto(p, "decrementReset", r)
            ELSE Finish(p, r @@ [result |-> out.found])
    /\ UNCHANGED <<loans, nextId, configs>>

DecrementCurrentLoans(p) ==
    /\ \E resourceId \in ResourceIdInputs, quantity \in 1..MaxQuantity :
          DecrementCurrentLoansCall(p, resourceId, quantity)
    /\ UNCHANGED calls

\* decrementCurrentLoans, second write: the returned count was negative; the
\* reset is logged as a warning
DecrementReset(p) ==
    /\ pc[p] = "decrementReset"
    /\ resources' = decrementReset(resources, req[p].id)
    /\ Finish(p, req[p] @@ [result |-> TRUE, warned |-> TRUE])
    /\ UNCHANGED <<loans, nextId, calls, configs>>

\* ResourceRepository.syncCurrentLoansCount
SyncCurrentLoansCountCall(p, resourceId, realCurrentLoans) ==
    /\ pc[p] = "idle"
    /\ LET out == syncCurrentLoansCount(resources, resourceId, realCurrentLoans) IN
         /\ resources' = out.res
         /\ Finish(p, [op |-> "syncCurrentLoansCount", id |-> resourceId,
                       realCurrentLoans |-> realCurrentLoans, result |-> out.ok])
    /\ UNCHANGED <<loans, nextId, calls, configs>>

SyncCurrentLoansCount(p) ==
    \E resourceId \in ResourceIdInputs, realCurrentLoans \in -1..(MaxQuantity + 1) :
        SyncCurrentLoansCountCall(p, resourceId, realCurrentLoans)

\* ResourceRepository.updateTotalQuantity, up to its read and checks
UpdateTotalQuantity(p) ==
    /\ pc[p] = "idle"
    /\ \E resourceId \in ResourceIdInputs, newTotalQuantity \in 0..MaxQuantity :
         LET r == [op |-> "updateTotalQuantity", id |-> resourceId,
                   newTotalQuantity |-> newTotalQuantity]
         IN
         IF updateTotalQuantityAllowed(resources, resourceId, newTotalQuantity)
         THEN Goto(p, "updateTotalQuantityWrite", r)
         ELSE Finish(p, r @@ [result |-> FALSE])
    /\ UNCHANGED <<resources, loans, nextId, calls, configs>>

\* updateTotalQuantity, its write
UpdateTotalQuantityWrite(p) ==
    /\ pc[p] = "updateTotalQuantityWrite"
    /\ resources' = updateTotalQuantityWrite(resources, req[p].id, req[p].newTotalQuantity)
    /\ Finish(p, req[p] @@ [result |-> Found(resources, req[p].id)])
    /\ UNCHANGED <<loans, nextId, calls, configs>>

\* ------------------------------------------------------- LoanService.create
\* up to the insert: user id check, validateLoanCreation, 'active' status.
\* quantity 0 stands for an omitted field.
LoanCreateStart(p, personId, resourceId, quantity, userId) ==
    /\ pc[p] = "idle"
    /\ LET q == IF quantity = 0 THEN 1 ELSE quantity
           r == [op |-> "loanCreate", personId |-> personId,
                 resourceId |-> resourceId, quantity |-> q, userId |-> userId]
       IN
         IF ~isValidObjectId(userId)
         THEN Finish(p, r @@ [status |-> "BadRequest"])
         ELSE IF ~validateLoanCreation(resources, loans, personId, resourceId, q)
         THEN Finish(p, r @@ [status |-> "BadRequest"])
         ELSE Goto(p, "loanInsert", r)
    /\ UNCHANGED <<resources, loans, nextId, calls, configs>>

\* LoanService.create while fewer than MaxLoans loans are stored or on their
\* way
LoanCreateCall(p, personId, resourceId, quantity, userId) ==
    /\ nextId.loans + Cardinality({q \in Procs : pc[q] = "loanInsert"}) < MaxLoans
    /\ LoanCreateStart(p, personId, resourceId, quantity, userId)

LoanCreate(p) ==
    \E personId \in Persons, resourceId \in ResourceIdInputs,
       quantity \in 0..MaxQuantity, userId \in {MalformedId} \cup Users :
        LoanCreateCall(p, personId, resourceId, quantity, userId)

\* loanRepository.create(loanData)
LoanInsert(p) ==
    /\ pc[p] = "loanInsert"
    /\ LET id == nextId.loans + 1 IN
         /\ loans' = loans @@ (id :> NewLoan(req[p].personId, req[p].resourceId,
                                            req[p].quantity, req[p].userId))
         /\ nextId' = [nextId EXCEPT !.loans = id]
         /\ Goto(p, "loanStock", req[p] @@ [loanId |-> id])
    /\ UNCHANGED <<resources, calls, configs>>

\* resourceRepository.incrementCurrentLoans; a failure is logged and ignored
LoanStock(p) ==
    /\ pc[p] = "loanStock"
    /\ LET out == incrementCurrentLoans(resources, req[p].resourceId, req[p].quantity) IN
         /\ resources' = out.res
         /\ Goto(p, "loanRead", req[p] @@ [stockUpdated |-> out.ok])
    /\ UNCHANGED <<loans, nextId, calls, configs>>

\* loanRepository.findByIdWithPopulate: the loan with its references, or
\* null when there is no such loan or when the query fails (the error is
\* logged and null returned)
findByIdWithPopulate(lns, id, queryOk) ==
    isValidObjectId(id) /\ queryOk /\ Found(lns, id)

\* LoanService.create: the read of the created loan; the database answers
\* the query or fails
LoanRead(p) ==
    /\ pc[p] = "loanRead"
    /\ \E queryOk \in BOOLEAN :
          IF findByIdWithPopulate(loans, req[p].loanId, queryOk)
          THEN Finish(p, req[p] @@ [status |-> "ok"])
          ELSE Finish(p, req[p] @@ [status |-> "NotFound"])
    /\ UNCHANGED <<resources, loans, nextId, calls, configs>>

\* ---------------------------------------------------- LoanService.renewLoan
\* loan.statusId.toString(): the loan that findByIdWithPopulate returns carries
\* the populated status document, which toObject() made a plain object, and a
\* plain object prints as "[object Object]"; an ObjectId prints as its id
statusIdToString(populated, status) ==
    IF populated THEN "[object Object]" ELSE status

\* activeStatus._id.toString()
activeStatusId == statusIdToString(FALSE, "active")

RenewLoanCall(p, id, additionalDays, userId) ==
    /\ pc[p] = "idle"
    /\ \E queryOk \in BOOLEAN :
          LET r == [op |-> "renewLoan", id |-> id,
                    additionalDays |-> additionalDays, userId |-> userId]
          IN
            IF ~isValidObjectId(id)
            THEN Finish(p, r @@ [status |-> "BadRequest"])
            ELSE IF ~findByIdWithPopulate(loans, id, queryOk)
            THEN Finish(p, r @@ [status |-> "NotFound"])
            ELSE IF statusIdToString(TRUE, loans[id].status) # activeStatusId
            THEN Finish(p, r @@ [status |-> "BadRequest"])
            ELSE Goto(p, "renewUpdate",
                      r @@ [newDueDate |-> loans[id].dueDate + additionalDays])
    /\ UNCHANGED <<resources, loans, nextId, calls, configs>>

RenewLoan(p) ==
    \E id \in LoanIdInputs, additionalDays \in 1..MaxExtension, userId \in Users :
        RenewLoanCall(p, id, additionalDays, userId)

\* renewLoan: loanRepository.update and the read that follows. No request
\* gets here, as the comparison of RenewLoanCall rejects every stored loan, so
\* no specification lists this step.
RenewUpdate(p) ==
    /\ pc[p] = "renewUpdate"
    /\ loans' = renewUpdate(loans, req[p].id, req[p].newDueDate, req[p].userId)
    /\ IF Found(loans, req[p].id)
       THEN Finish(p, req[p] @@ [status |-> "ok"])
       ELSE Finish(p, req[p] @@ [status |-> "BadRequest"])
    /\ UNCHANGED <<resources, nextId, calls, configs>>

\* -------------------------------------------------- LoanController.findById
\* LoanService.findById: the class of the exception it throws, or "ok"
loanServiceFindById(lns, id) ==
    IF ~isValidObjectId(id) THEN "BadRequest"
    ELSE IF ~Found(lns, id) THEN "NotFound"
    ELSE "ok"

\* LoanController.findById: an invalid id throws a plain Error, and whatever
\* is thrown inside the try block is rethrown as new Error(message)
loanControllerFindById(lns, id) ==
    IF ~isValidObjectId(id) THEN "Error"
    ELSE IF loanServiceFindById(lns, id) # "ok" THEN "Error"
    ELSE "ok"

\* GlobalExceptionFilter: the status of an HttpException, 500 for the rest
httpStatus(status) ==
    CASE status = "ok" -> 200
      [] status = "BadRequest" -> 400
      [] status = "Forbidden" -> 403
      [] status = "NotFound" -> 404
      [] OTHER -> 500

\* GET /api/loans/:id
LoanFindByIdCall(p, id) ==
    /\ pc[p] = "idle"
    /\ Finish(p, [op |-> "loanFindById", id |-> id,
                  status |-> loanControllerFindById(loans, id)])
    /\ UNCHANGED <<resources, loans, nextId, calls, configs>>

LoanFindById(p) == \E id \in LoanIdInputs : LoanFindByIdCall(p, id)

\* ------------------------------------------------------------ ReportsService
UpdateLoanStatusCall(p, loanId, status) ==
    /\ pc[p] = "idle"
    /\ loans' = updateLoanStatus(loans, loanId, status)
    /\ Finish(p, [op |-> "updateLoanStatus", id |-> loanId, newStatus |-> status,
                  status |-> IF Found(loans, loanId) THEN "ok" ELSE "NotFound"])
    /\ UNCHANGED <<resources, nextId, calls, configs>>

UpdateLoanStatus(p) ==
    \E loanId \in LoanIdInputs \ {MalformedId}, status \in LoanStatusNames :
        UpdateLoanStatusCall(p, loanId, status)

UpdateMultipleLoanStatusCall(p, loanIds, status) ==
    /\ pc[p] = "idle"
    /\ loans' = updateMultipleLoanStatus(loans, loanIds, status)
    /\ Finish(p, [op |-> "updateMultipleLoanStatus", ids |-> loanIds,
                  newStatus |-> status, status |-> "ok"])
    /\ UNCHANGED <<resources, nextId, calls, configs>>

UpdateMultipleLoanStatus(p) ==
    \E loanIds \in SUBSET LoanIds, status \in LoanStatusNames :
        UpdateMultipleLoanStatusCall(p, loanIds, status)

\* ----------------------------------------------------------- ResourceService
\* update, up to findById; available "undefined" stands for an omitted field
ResourceUpdateCall(p, id, available) ==
    /\ pc[p] = "idle"
    /\ LET r == [op |-> "resourceUpdate", id |-> id, available |-> available] IN
         IF ~isValidObjectId(id)
         THEN Finish(p, r @@ [status |-> "BadRequest"])
         ELSE IF ~Found(resources, id)
         THEN Finish(p, r @@ [status |-> "NotFound"])
         ELSE Goto(p, "resourceUpdateWrite", r)
    /\ UNCHANGED <<resources, loans, nextId, calls, configs>>

ResourceUpdate(p) ==
    \E id \in ResourceIdInputs, available \in {"undefined", "true", "false"} :
        ResourceUpdateCall(p, id, available)

\* update: resourceRepository.update(id, updateData) and the read that follows
ResourceUpdateWrite(p) ==
    /\ pc[p] = "resourceUpdateWrite"
    /\ IF Found(resources, req[p].id)
       THEN /\ resources' = IF req[p].available = "undefined" THEN resources
                            ELSE updateAvailabilityWrite(resources, req[p].id,
                                                         req[p].available = "true")
            /\ Finish(p, req[p] @@ [status |-> "ok"])
       ELSE /\ resources' = resources
            /\ Finish(p, req[p] @@ [status |-> "NotFound"])
    /\ UNCHANGED <<loans, nextId, calls, configs>>

\* updateAvailability without the check of the id
ResourceUpdateAvailabilityCall_noIdCheck(p, id, available) ==
    /\ pc[p] = "idle"
    /\ resources' = updateAvailabilityWrite(resources, id, available)
    /\ Finish(p, [op |-> "resourceUpdateAvailability", id |-> id,
                  available |-> available,
                  status |-> IF Found(resources, id) THEN "ok" ELSE "NotFound"])
    /\ UNCHANGED <<loans, nextId, calls, configs>>

\* ResourceService.updateAvailability: the check of the id, then
\* resourceRepository.updateAvailability and the read of the updated resource
ResourceUpdateAvailabilityCall(p, id, available) ==
    /\ pc[p] = "idle"
    /\ LET r == [op |-> "resourceUpdateAvailability", id |-> id,
                 available |-> available]
       IN
         IF ~isValidObjectId(id)
         THEN /\ resources' = resources
              /\ Finish(p, r @@ [status |-> "BadRequest"])
         ELSE /\ resources' = updateAvailabilityWrite(resources, id, available)
              /\ Finish(p, r @@ [status |-> IF Found(resources, id)
                                            THEN "ok" ELSE "NotFound"])
    /\ UNCHANGED <<loans, nextId, calls, configs>>

ResourceUpdateAvailability(p) ==
    \E id \in ResourceIdInputs, available \in BOOLEAN :
        ResourceUpdateAvailabilityCall(p, id, available)

\* delete, up to findById
ResourceDeleteCall(p, id) ==
    /\ pc[p] = "idle"
    /\ LET r == [op |-> "resourceDelete", id |-> id] IN
         IF ~isValidObjectId(id)
         THEN Finish(p, r @@ [status |-> "BadRequest"])
         ELSE IF ~Found(resources, id)
         THEN Finish(p, r @@ [status |-> "NotFound"])
         ELSE Goto(p, "resourceDeleteWrite", r)
    /\ UNCHANGED <<resources, loans, nextId, calls, configs>>

ResourceDelete(p) == \E id \in ResourceIdInputs : ResourceDeleteCall(p, id)

\* delete that reports success whatever resourceRepository.delete returned
ResourceDeleteWrite_ignoresResult(p) ==
    /\ pc[p] = "resourceDeleteWrite"
    /\ resources' = deleteResource(resources, req[p].id)
    /\ Finish(p, req[p] @@ [status |-> "ok"])
    /\ UNCHANGED <<loans, nextId, calls, configs>>

\* delete: resourceRepository.delete(id) and the check of its result
ResourceDeleteWrite(p) ==
    /\ pc[p] = "resourceDeleteWrite"
    /\ resources' = deleteResource(resources, req[p].id)
    /\ IF Found(resources, req[p].id)
       THEN Finish(p, req[p] @@ [status |-> "ok"])
       ELSE Finish(p, req[p] @@ [status |-> "NotFound"])
    /\ UNCHANGED <<loans, nextId, calls, configs>>

\* ------------------------------------------- granular stock: mark / restore
\* markUnitsAsLost / markUnitsAsDamaged / markUnitsInMaintenance, up to the
\* availability check
MarkUnitsCall(p, kind, resourceId, quantity) ==
    /\ pc[p] = "idle"
    /\ Found(resources, resourceId) =>
           resources[resourceId].lostQuantity + resources[resourceId].damagedQuantity
             + resources[resourceId].maintenanceQuantity + quantity <= MaxMarked
    /\ LET r == [op |-> "markUnits", kind |-> kind, id |-> resourceId,
                 quantity |-> quantity]
       IN
         IF markUnitsAllowed(resources, resourceId, quantity)
         THEN Goto(p, "markWrite", r)
         ELSE Finish(p, [op |-> "markUnits", result |-> FALSE])
    /\ UNCHANGED <<resources, loans, nextId, calls, configs>>

MarkUnits(p) ==
    \E kind \in UnitKinds, resourceId \in ResourceIdInputs, quantity \in 1..MaxQuantity :
        MarkUnitsCall(p, kind, resourceId, quantity)

\* markUnitsAs..., the $inc
MarkWrite(p) ==
    /\ pc[p] = "markWrite"
    /\ resources' = incUnits(resources, req[p].kind, req[p].id, req[p].quantity)
    /\ Finish(p, [op |-> "markUnits", result |-> Found(resources, req[p].id)])
    /\ UNCHANGED <<loans, nextId, calls, configs>>

\* restoreLostUnits / restoreDamagedUnits / restoreMaintenanceUnits, up to
\* the check of the counter
RestoreUnitsCall(p, kind, resourceId, quantity) ==
    /\ pc[p] = "idle"
    /\ LET r == [op |-> "restoreUnits", kind |-> kind, id |-> resourceId,
                 quantity |-> quantity]
       IN
         IF restoreUnitsAllowed(resources, kind, resourceId, quantity)
         THEN Goto(p, "restoreWrite", r)
         ELSE Finish(p, [op |-> "restoreUnits", result |-> FALSE])
    /\ UNCHANGED <<resources, loans, nextId, calls, configs>>

RestoreUnits(p) ==
    \E kind \in UnitKinds, resourceId \in ResourceIdInputs, quantity \in 1..MaxQuantity :
        RestoreUnitsCall(p, kind, resourceId, quantity)

\* restore...Units, the $inc by -quantity
RestoreWrite(p) ==
    /\ pc[p] = "restoreWrite"
    /\ resources' = incUnits(resources, req[p].kind, req[p].id, 0 - req[p].quantity)
    /\ Finish(p, [op |-> "restoreUnits", result |-> Found(resources, req[p].id)])
    /\ UNCHANGED <<loans, nextId, calls, configs>>

\* ------------------------------------------------ logged counter calls
TotalCalls ==
    LET RECURSIVE Sum(_)
        Sum(S) == IF S = {} THEN 0
                  ELSE LET x == CHOOSE y \in S : TRUE
                       IN calls[x[1]][x[2]] + Sum(S \ {x})
    IN Sum(ResourceIds \X CallKinds)

LogCall(resourceId, kind) ==
    /\ TotalCalls < MaxCalls
    /\ calls' = IF Found(resources, resourceId)
                THEN [calls EXCEPT ![resourceId][kind] = @ + 1]
                ELSE calls

CounterIncrement(p) ==
    \E resourceId \in ResourceIdInputs, quantity \in 1..MaxQuantity :
        /\ IncrementCurrentLoansCall(p, resourceId, quantity)
        /\ LogCall(resourceId, <<"inc", quantity>>)

CounterDecrement(p) ==
    \E resourceId \in ResourceIdInputs, quantity \in 1..MaxQuantity :
        /\ DecrementCurrentLoansCall(p, resourceId, quantity)
        /\ LogCall(resourceId, <<"dec", quantity>>)

\* ================================================================ RolesGuard

\* the metadata read from a handler or class that carries no @Roles
\* decorator (undefined), told apart from every list of roles
NoRoles == {"undefined"}

\* a request that carries no user
NoUser == "none"

\* UserRole
UserRole == {"admin", "librarian"}

\* what @Roles(...roles) can attach to a handler or to a controller class
RolesMetadata == {NoRoles} \cup SUBSET UserRole

\* the users a request can carry: none, one with a UserRole, one with a role
\* that is no UserRole
RequestUsers == {NoUser} \cup UserRole \cup {"guest"}

\* Reflector.getAllAndOverride(ROLES_KEY, [handler, class]): the handler's
\* metadata when it has some, else the class's
getAllAndOverride(handlerRoles, classRoles) ==
    IF handlerRoles # NoRoles THEN handlerRoles ELSE classRoles

\* a guard that admits every request that carries a user
canActivate_anyUser(handlerRoles, classRoles, user) ==
    LET requiredRoles == getAllAndOverride(handlerRoles, classRoles) IN
    IF requiredRoles = NoRoles THEN "ok"
    ELSE IF user = NoUser THEN "Forbidden"
    ELSE "ok"

\* RolesGuard.canActivate: "ok" for true, "Forbidden" for ForbiddenException
canActivate(handlerRoles, classRoles, user) ==
    LET requiredRoles == getAllAndOverride(handlerRoles, classRoles) IN
    IF requiredRoles = NoRoles THEN "ok"
    ELSE IF user = NoUser THEN "Forbidden"
    ELSE LET hasRole == \E role \in requiredRoles : user = role IN
         IF ~hasRole THEN "Forbidden" ELSE "ok"

\* a request arrives at a handler behind RolesGuard
GuardedRequestCall(p, handlerRoles, classRoles, user) ==
    /\ pc[p] = "idle"
    /\ Goto(p, "guard", [op |-> "guarded", handlerRoles |-> handlerRoles,
                         classRoles |-> classRoles, user |-> user])
    /\ UNCHANGED <<resources, loans, nextId, calls, configs>>

GuardedRequest(p) ==
    \E handlerRoles \in RolesMetadata, classRoles \in RolesMetadata,
       user \in RequestUsers :
        GuardedRequestCall(p, handlerRoles, classRoles, user)

\* RolesGuard runs before the handler of the request p serves
RolesGuard(p) ==
    /\ pc[p] = "guard"
    /\ LET r == req[p]
           status == canActivate(r.handlerRoles, r.classRoles, r.user)
       IN IF status = "ok"
          THEN Goto(p, "handler", r)
          ELSE Finish(p, [op |-> r.op, status |-> status])
    /\ UNCHANGED <<resources, loans, nextId, calls, configs>>

\* the handler of a guarded request that touches no collection
GuardedHandler(p) ==
    /\ pc[p] = "handler"
    /\ req[p].op = "guarded"
    /\ Finish(p, [op |-> "guarded", status |-> "ok"])
    /\ UNCHANGED <<resources, loans, nextId, calls, configs>>

\* ==================================================== SystemConfigRepository

\* the ids of the stored configurations
ConfigIds == 1..MaxConfigs

\* the ids a restore request can name: malformed, stored or unknown
ConfigIdInputs == {MalformedId} \cup ConfigIds

\* the users a request to the system-config controller can carry
ConfigUsers == {NoUser, "admin", "librarian"}

\* sidebarTitle of the default configuration
DefaultTitle == "Biblioteca Escolar"

\* sidebarTitle values a DTO can carry; Unset when the DTO has none
Unset == "undefined"
Titles == {"Mi Biblioteca"}

\* no document (null)
NoConfig == 0

ActiveIds(cfgs) == {c \in DOMAIN cfgs : cfgs[c].active}

\* the time of the next write: later than every updatedAt stored so far
Now(cfgs) ==
    LET RECURSIVE Latest(_)
        Latest(S) == IF S = {} THEN 0
                     ELSE LET c == CHOOSE x \in S : TRUE
                          IN Max(cfgs[c].updatedAt, Latest(S \ {c}))
    IN Latest(DOMAIN cfgs) + 1

\* find({active: true}).sort({updatedAt: -1}): the documents that can come
\* first, NoConfig when none is active
latestActive(cfgs) ==
    IF ActiveIds(cfgs) = {} THEN {NoConfig}
    ELSE {c \in ActiveIds(cfgs) :
            \A d \in ActiveIds(cfgs) : cfgs[d].updatedAt <= cfgs[c].updatedAt}

\* findOne({active: true}): some active document, NoConfig when there is none
findOneActive(cfgs) ==
    IF ActiveIds(cfgs) = {} THEN {NoConfig} ELSE ActiveIds(cfgs)

\* updateMany(filter, {active: false}) on the documents ids that match
deactivate(cfgs, ids) ==
    [c \in DOMAIN cfgs |->
        IF c \in ids
        THEN [cfgs[c] EXCEPT !.active = FALSE, !.updatedAt = Now(cfgs)]
        ELSE cfgs[c]]

\* a cleanup that keeps the configuration found first as the only old one
cleanupOldIds_keepsOldest(cfgs, latestConfig) ==
    IF Cardinality(ActiveIds(cfgs)) > 1 THEN {latestConfig} ELSE {}

\* SystemConfigRepository.cleanupDuplicateConfigs: the ids it deactivates
\* when latestConfig came first in the sorted list of active documents
cleanupOldIds(cfgs, latestConfig) ==
    IF Cardinality(ActiveIds(cfgs)) > 1
    THEN ActiveIds(cfgs) \ {latestConfig}
    ELSE {}

\* SystemConfigRepository.createOrUpdateActiveConfig, the write that follows
\* findOne: update of the document found, or insert of a new active document
createOrUpdateWrite(cfgs, activeConfig, title) ==
    IF activeConfig # NoConfig
    THEN [cfgs EXCEPT ![activeConfig] =
            [active |-> TRUE, updatedAt |-> Now(cfgs),
             sidebarTitle |-> IF title = Unset THEN @.sidebarTitle ELSE title]]
    ELSE cfgs @@ (Cardinality(DOMAIN cfgs) + 1 :>
            [active |-> TRUE, updatedAt |-> Now(cfgs),
             sidebarTitle |-> IF title = Unset THEN DefaultTitle ELSE title])

\* SystemConfigRepository.restoreConfig, configToRestore.save(): the document
\* was loaded before the others were deactivated; save writes the paths that
\* changed since then, lastUpdated always and active when it was loaded false
restoreSave(cfgs, configId, loadedActive) ==
    [cfgs EXCEPT ![configId] =
        [@ EXCEPT !.active = IF loadedActive THEN @ ELSE TRUE,
                  !.updatedAt = Now(cfgs)]]

\* ===================================================== SystemConfigController

\* AuthGuard: a request without a valid bearer token carries no user
authGuard(user) == IF user = NoUser THEN "Unauthorized" ELSE "ok"

\* @UseGuards(AuthGuard, RolesGuard) of SystemConfigController, whose class
\* declares no roles
configGuards(handlerRoles, user) ==
    IF authGuard(user) # "ok" THEN authGuard(user)
    ELSE canActivate(handlerRoles, NoRoles, user)

\* the request p is rejected by a guard, or starts with the step below
Guarded(p, op, handlerRoles, user, Start) ==
    /\ pc[p] = "idle"
    /\ IF configGuards(handlerRoles, user) # "ok"
       THEN Finish(p, [op |-> op, status |-> configGuards(handlerRoles, user)])
       ELSE Start
    /\ UNCHANGED <<resources, loans, nextId, calls, configs>>

\* POST /system-config: createConfig, up to findOne of
\* createOrUpdateActiveConfig
ConfigCreateCall(p, user, title) ==
    Guarded(p, "createConfig", {"admin"}, user,
        \E activeConfig \in findOneActive(configs) :
            Goto(p, "upsertWrite", [op |-> "createConfig", user |-> user,
                                    title |-> title,
                                    activeConfig |-> activeConfig]))

ConfigCreate(p) ==
    \E user \in ConfigUsers, title \in Titles : ConfigCreateCall(p, user, title)

\* PUT /system-config: updateConfig, up to findActiveConfig
ConfigUpdateCall(p, user, title) ==
    Guarded(p, "updateConfig", {"admin"}, user,
        \E currentConfig \in latestActive(configs) :
            IF currentConfig = NoConfig
            THEN Finish(p, [op |-> "updateConfig", status |-> "NotFound"])
            ELSE Goto(p, "upsertFind", [op |-> "updateConfig", user |-> user,
                                        title |-> title]))

ConfigUpdate(p) ==
    \E user \in ConfigUsers, title \in Titles \cup {Unset} :
        ConfigUpdateCall(p, user, title)

\* POST /system-config/upload-logo: uploadLogo, up to findActiveConfig; the
\* logo leaves sidebarTitle as it is
UploadLogoCall(p, user, fileOk) ==
    Guarded(p, "uploadLogo", {"admin"}, user,
        IF ~fileOk
        THEN Finish(p, [op |-> "uploadLogo", status |-> "BadRequest"])
        ELSE Goto(p, "upsertFind", [op |-> "uploadLogo", user |-> user,
                                    title |-> Unset]))

UploadLogo(p) ==
    \E user \in ConfigUsers, fileOk \in BOOLEAN : UploadLogoCall(p, user, fileOk)

\* createOrUpdateActiveConfig: findOne({active: true})
ConfigUpsertFind(p) ==
    /\ pc[p] = "upsertFind"
    /\ \E activeConfig \in findOneActive(configs) :
          Goto(p, "upsertWrite", [f \in DOMAIN req[p] \cup {"activeConfig"} |->
                  IF f = "activeConfig" THEN activeConfig ELSE req[p][f]])
    /\ UNCHANGED <<resources, loans, nextId, calls, configs>>

\* createOrUpdateActiveConfig: findByIdAndUpdate or save of a new document
ConfigUpsertWrite(p) ==
    /\ pc[p] = "upsertWrite"
    /\ Now(configs) <= MaxTime
    /\ req[p].activeConfig = NoConfig => Cardinality(DOMAIN configs) < MaxConfigs
    /\ configs' = createOrUpdateWrite(configs, req[p].activeConfig, req[p].title)
    /\ Finish(p, [op |-> req[p].op, status |-> "ok",
                  id |-> IF req[p].activeConfig # NoConfig
                         THEN req[p].activeConfig
                         ELSE Cardinality(DOMAIN configs) + 1])
    /\ UNCHANGED <<resources, loans, nextId, calls>>

\* cleanupDuplicateConfigs, up to its find: the step that follows when there
\* is nothing to deactivate is Done
CleanupFind(p, r, Done) ==
    \E latestConfig \in latestActive(configs) :
        IF cleanupOldIds(configs, latestConfig) # {}
        THEN Goto(p, "cleanupWrite",
                  r @@ [oldIds |-> cleanupOldIds(configs, latestConfig)])
        ELSE Done

\* GET /system-config: getActiveConfig, up to the find of
\* cleanupDuplicateConfigs; the handler declares no roles
ConfigGetCall(p, user) ==
    Guarded(p, "getActiveConfig", NoRoles, user,
        CleanupFind(p, [op |-> "getActiveConfig", user |-> user],
            Goto(p, "getFind", [op |-> "getActiveConfig", user |-> user])))

ConfigGet(p) == \E user \in ConfigUsers : ConfigGetCall(p, user)

\* POST /system-config/cleanup: cleanupDuplicateConfigs, up to its find
ConfigCleanupCall(p, user) ==
    Guarded(p, "cleanupDuplicateConfigs", {"admin"}, user,
        CleanupFind(p, [op |-> "cleanupDuplicateConfigs", user |-> user],
            Finish(p, [op |-> "cleanupDuplicateConfigs", status |-> "ok"])))

ConfigCleanup(p) == \E user \in ConfigUsers : ConfigCleanupCall(p, user)

\* cleanupDuplicateConfigs: updateMany({_id: {$in: oldIds}}, {active: false})
ConfigCleanupWrite(p) ==
    /\ pc[p] = "cleanupWrite"
    /\ Now(configs) <= MaxTime
    /\ configs' = deactivate(configs, req[p].oldIds)
    /\ IF req[p].op = "getActiveConfig"
       THEN Goto(p, "getFind", [op |-> req[p].op, user |-> req[p].user])
       ELSE Finish(p, [op |-> req[p].op, status |-> "ok"])
    /\ UNCHANGED <<resources, loans, nextId, calls>>

\* getActiveConfig: findActiveConfig, and createDefaultConfig when it finds
\* none
ConfigGetFind(p) ==
    /\ pc[p] = "getFind"
    /\ \E config \in latestActive(configs) :
          IF config = NoConfig
          THEN Goto(p, "upsertFind", req[p] @@ [title |-> DefaultTitle])
          ELSE Finish(p, [op |-> req[p].op, status |-> "ok", id |-> config])
    /\ UNCHANGED <<resources, loans, nextId, calls, configs>>

\* GET /system-config/history
ConfigHistoryCall(p, user) ==
    Guarded(p, "getConfigHistory", {"admin"}, user,
        Finish(p, [op |-> "getConfigHistory", status |-> "ok"]))

ConfigHistory(p) == \E user \in ConfigUsers : ConfigHistoryCall(p, user)

\* POST /system-config/restore/:id: restoreConfig, up to findById, which
\* throws a CastError for a malformed id
ConfigRestoreCall(p, user, configId) ==
    Guarded(p, "restoreConfig", {"admin"}, user,
        IF ~isValidObjectId(configId)
        THEN Finish(p, [op |-> "restoreConfig", id |-> configId,
                        status |-> "Error"])
        ELSE IF ~Found(configs, configId)
        THEN Finish(p, [op |-> "restoreConfig", id |-> configId,
                        status |-> "NotFound"])
        ELSE Goto(p, "restoreDeactivate",
                  [op |-> "restoreConfig", user |-> user, id |-> configId,
                   loadedActive |-> configs[configId].active]))

ConfigRestore(p) ==
    \E user \in ConfigUsers, configId \in ConfigIdInputs :
        ConfigRestoreCall(p, user, configId)

\* restoreConfig: updateMany({active: true}, {active: false})
ConfigRestoreDeactivate(p) ==
    /\ pc[p] = "restoreDeactivate"
    /\ Now(configs) <= MaxTime
    /\ configs' = deactivate(configs, ActiveIds(configs))
    /\ Goto(p, "restoreSave", req[p])
    /\ UNCHANGED <<resources, loans, nextId, calls>>

\* restoreConfig: configToRestore.active = true; configToRestore.save()
ConfigRestoreSave(p) ==
    /\ pc[p] = "restoreSave"
    /\ Now(configs) <= MaxTime
    /\ configs' = restoreSave(configs, req[p].id, req[p].loadedActive)
    /\ Finish(p, [op |-> "restoreConfig", id |-> req[p].id, status |-> "ok"])
    /\ UNCHANGED <<resources, loans, nextId, calls>>

\* ========================================================== specifications
CreateLoanStep(p) == LoanCreate(p) \/ LoanInsert(p) \/ LoanStock(p) \/ LoanRead(p)

\* ResourceService.create with valid references, in the specifications that
\* keep the catalogue small
SmallResourceCreate(p) ==
    /\ nextId.resources < MaxSmallResources
    /\ \E totalQuantity \in 0..MaxQuantity : ResourceCreateCall(p, totalQuantity, TRUE)

\* ResourceService.create of a resource without totalQuantity (one copy)
SingleCopyResourceCreate(p) ==
    /\ nextId.resources < MaxSmallResources
    /\ ResourceCreateCall(p, 0, TRUE)

\* SpecStock: one request at a time; the repository's stock operations and
\* loan creation
NextStock ==
    \E p \in {"p1"} :
        \/ SmallResourceCreate(p)
        \/ CreateLoanStep(p)
        \/ IncrementCurrentLoans(p)
        \/ DecrementCurrentLoans(p)
        \/ DecrementReset(p)
        \/ SyncCurrentLoansCount(p)
        \/ UpdateTotalQuantity(p)
        \/ UpdateTotalQuantityWrite(p)

SpecStock == Init /\ [][NextStock]_vars

\* SpecSync: one request at a time; loans are created and counters are
\* synchronised
NextSync ==
    \E p \in {"p1"} :
        \/ SmallResourceCreate(p)
        \/ CreateLoanStep(p)
        \/ SyncCurrentLoansCount(p)

SpecSync == Init /\ [][NextSync]_vars

\* SpecDelete: two concurrent requests create and delete resources
NextDelete ==
    \E p \in Procs :
        \/ ResourceCreate(p)
        \/ ResourceDelete(p)
        \/ ResourceDeleteWrite(p)

SpecDelete == Init /\ [][NextDelete]_vars

\* SpecLoans: two concurrent requests; loans are created while resources are
\* created and deleted
NextLoans ==
    \E p \in Procs :
        \/ SmallResourceCreate(p)
        \/ CreateLoanStep(p)
        \/ ResourceDelete(p)
        \/ ResourceDeleteWrite(p)

SpecLoans == Init /\ [][NextLoans]_vars

\* SpecReports: one request at a time; loans are created and their status
\* is updated through the reports module
NextReports ==
    \E p \in {"p1"} :
        \/ ResourceCreate(p)
        \/ CreateLoanStep(p)
        \/ UpdateLoanStatus(p)
        \/ UpdateMultipleLoanStatus(p)

SpecReports == Init /\ [][NextReports]_vars

\* SpecHandlers: one request at a time; the handlers that take an id
NextHandlers ==
    \E p \in {"p1"} :
        \/ SingleCopyResourceCreate(p)
        \/ CreateLoanStep(p)
        \/ ResourceUpdate(p)
        \/ ResourceUpdateWrite(p)
        \/ ResourceUpdateAvailability(p)
        \/ ResourceDelete(p)
        \/ ResourceDeleteWrite(p)
        \/ RenewLoan(p)

SpecHandlers == Init /\ [][NextHandlers]_vars

\* SpecUnits: two concurrent requests mark and restore units of resources
NextUnits ==
    \E p \in Procs :
        \/ SmallResourceCreate(p)
        \/ MarkUnits(p)
        \/ MarkWrite(p)
        \/ RestoreUnits(p)
        \/ RestoreWrite(p)

SpecUnits == Init /\ [][NextUnits]_vars

\* SpecCounter: concurrent increments and decrements of the loan counter,
\* each call logged
NextCounter ==
    \E p \in Procs :
        \/ ResourceCreate(p)
        \/ CounterIncrement(p)
        \/ CounterDecrement(p)
        \/ DecrementReset(p)

SpecCounter == Init /\ [][NextCounter]_vars


\* SpecFind: one request at a time; loans are created and looked up by id
NextFind ==
    \E p \in {"p1"} :
        \/ SmallResourceCreate(p)
        \/ CreateLoanStep(p)
        \/ LoanFindById(p)

SpecFind == Init /\ [][NextFind]_vars

\* ================================================================= claims

\* C1: every stored resource has currentLoansCount <= totalQuantity, in every
\* state reached through loan creation and the repository's increment,
\* decrement, sync and total-quantity operations.
C1_CountWithinTotal ==
    \A r \in DOMAIN resources :
        resources[r].currentLoansCount <= resources[r].totalQuantity

\* C2: the currentLoansCount of a resource is never negative, not even
\* between the two writes of decrementCurrentLoans.
C2_CountNeverNegative ==
    \A r \in DOMAIN resources : resources[r].currentLoansCount >= 0

\* C3: lostQuantity, damagedQuantity and maintenanceQuantity never become
\* negative under concurrent restore calls on the same resource.
C3_UnitsNeverNegative ==
    \A r \in DOMAIN resources : \A kind \in UnitKinds : resources[r][kind] >= 0


\* C4: whenever create has returned a loan, the stock update of that create
\* has incremented the counter of the loan's resource by the loan's quantity.
C4_ReturnedCreateIncremented ==
    (last.op = "loanCreate" /\ last.status = "ok") => last.stockUpdated

\* C5: whenever loans of a resource are marked returned, the resource's
\* currentLoansCount decreases by the quantity of those loans.
C5_ReturnDecrements ==
    [][\A r \in DOMAIN resources :
         LET marked == {l \in DOMAIN loans :
                          /\ loans[l].resourceId = r
                          /\ loans[l].status # "returned"
                          /\ loans'[l].status = "returned"}
         IN marked # {} =>
              resources'[r].currentLoansCount =
                  resources[r].currentLoansCount - SumQuantity(loans, marked)]_vars

\* the counts reachable from count c by running the logged calls one after
\* the other, in every order
RECURSIVE SerialOutcomes(_, _)
SerialOutcomes(c, bag) ==
    LET pending == {k \in CallKinds : bag[k] > 0}
        doc == [currentLoansCount |-> c]
        after(k) == IF k[1] = "inc"
                    THEN incrementCurrentLoans(1 :> doc, 1, k[2]).res[1].currentLoansCount
                    ELSE decrementCurrentLoans(1 :> doc, 1, k[2])[1].currentLoansCount
    IN IF pending = {} THEN {c}
       ELSE UNION {SerialOutcomes(after(k), [bag EXCEPT ![k] = @ - 1]) : k \in pending}

\* C6: once all concurrent increment and decrement calls on a resource have
\* finished, its currentLoansCount is the result of running the same calls
\* in some serial order.
C6_CounterSerializable ==
    (\A p \in Procs : pc[p] = "idle") =>
        \A r \in DOMAIN resources :
            resources[r].currentLoansCount \in SerialOutcomes(0, calls[r])

\* one step of syncCurrentLoansCount called with the real total of r
C7_SyncStep ==
    \A p \in Procs, r \in ResourceIdInputs, n \in -1..(MaxQuantity + 1) :
        (/\ pc[p] = "idle"
         /\ last'.op = "syncCurrentLoansCount"
         /\ last'.id = r
         /\ n = getTotalQuantityLoanedByResource(loans, r)
         /\ SyncCurrentLoansCountCall(p, r, n)) =>
            LET lent == SumQuantity(loans, {l \in DOMAIN loans :
                                              /\ loans[l].resourceId = r
                                              /\ loans[l].returnedDate = NullDate})
            IN /\ loans' = loans
               /\ IF isValidObjectId(r) /\ r \in DOMAIN resources
                  THEN /\ last'.result = TRUE
                       /\ DOMAIN resources' = DOMAIN resources
                       /\ resources'[r].currentLoansCount = Max(0, lent)
                       /\ resources'[r] = [resources[r] EXCEPT !.currentLoansCount =
                                               resources'[r].currentLoansCount]
                       /\ \A o \in DOMAIN resources \ {r} : resources'[o] = resources[o]
                       /\ syncCurrentLoansCount(resources', r,
                              getTotalQuantityLoanedByResource(loans', r)).res = resources'
                  ELSE /\ last'.result = FALSE
                       /\ resources' = resources

C8_LoansReferenceResources ==
    \A l \in DOMAIN loans : loans[l].resourceId \in DOMAIN resources


\* the steps of ResourceService.delete
C9_DeleteStep ==
    \A p \in Procs :
        /\ \A id \in ResourceIdInputs :
               (ResourceDeleteCall(p, id) /\ isValidObjectId(id)) =>
                   /\ resources' = resources
                   /\ ~Found(resources, id) =>
                          (last'.status = "NotFound" /\ pc'[p] = "idle")
        /\ ResourceDeleteWrite(p) =>
               IF last'.status = "ok"
               THEN /\ Found(resources, req[p].id)
                    /\ DOMAIN resources' = DOMAIN resources \ {req[p].id}
                    /\ \A o \in DOMAIN resources' : resources'[o] = resources[o]
               ELSE /\ last'.status = "NotFound"
                    /\ ~Found(resources, req[p].id)
                    /\ resources' = resources

\* C9: a delete of an id whose resource is absent (never stored, or already
\* deleted, also by a concurrent delete) answers NotFound and leaves every
\* stored resource unchanged; a delete that succeeds removes exactly the
\* resource with that id and leaves the others as they were.
C9_DeleteRepeatable == [][C9_DeleteStep]_vars

\* a resource that was stored and deleted is deleted again, another one remains
C9_Witness ==
    /\ last.op = "resourceDelete"
    /\ last.status = "NotFound"
    /\ last.id \in 1..nextId.resources
    /\ ~Found(resources, last.id)
    /\ DOMAIN resources # {}

\* the first step of a handler that was given a malformed id
C10_InvalidIdStep ==
    \A p \in Procs :
        (\/ \E available \in {"undefined", "true", "false"} :
                ResourceUpdateCall(p, MalformedId, available)
         \/ \E available \in BOOLEAN :
                ResourceUpdateAvailabilityCall(p, MalformedId, available)
         \/ ResourceDeleteCall(p, MalformedId)
         \/ \E additionalDays \in 1..MaxExtension, userId \in Users :
                RenewLoanCall(p, MalformedId, additionalDays, userId)) =>
            /\ last'.status = "BadRequest"
            /\ pc'[p] = "idle"
            /\ resources' = resources
            /\ loans' = loans

\* C10: ResourceService.update, updateAvailability and delete, and
\* LoanService.renewLoan, called with an id that is not a valid ObjectId,
\* answer BadRequest in their first step and leave every stored resource
\* and loan unchanged.
C10_InvalidIdRejected == [][C10_InvalidIdStep]_vars

\* a renewal with a malformed id was rejected while loans and resources exist
C10_Witness ==
    /\ last.op = "renewLoan"
    /\ last.id = MalformedId
    /\ last.status = "BadRequest"
    /\ DOMAIN resources # {}
    /\ DOMAIN loans # {}

\* one step of ResourceService.create with valid references
C11_CreateStep ==
    \A p \in Procs, totalQuantity \in 0..MaxQuantity :
        ResourceCreateCall(p, totalQuantity, TRUE) =>
            /\ last'.status = "ok"
            /\ last'.id \in DOMAIN resources'
            /\ last'.id \notin DOMAIN resources
            /\ resources'[last'.id].available = TRUE
            /\ resources'[last'.id].currentLoansCount = 0
            /\ resources'[last'.id].totalQuantity =
                   (IF totalQuantity = 0 THEN 1 ELSE totalQuantity)
            /\ \A o \in DOMAIN resources : resources'[o] = resources[o]

C12_FindByIdKeepsErrorClass ==
    [][\A p \in Procs, id \in LoanIdInputs :
         LoanFindByIdCall(p, id) =>
             /\ ~isValidObjectId(id) => httpStatus(last'.status) = 400
             /\ (isValidObjectId(id) /\ ~Found(loans, id)) =>
                    httpStatus(last'.status) = 404]_vars

\* SpecGuard: one request at a time through RolesGuard, under every metadata
\* of handler and class and every user
NextGuard ==
    \E p \in {"p1"} :
        \/ GuardedRequest(p)
        \/ RolesGuard(p)
        \/ GuardedHandler(p)

SpecGuard == Init /\ [][NextGuard]_vars

\* C13 as stated: RolesGuard admits a request to a handler that declares
\* required roles exactly when the request's user has one of them, rejects it
\* with ForbiddenException otherwise, and admits every request to a handler
\* that declares no roles.
C13_HandlerRolesStep ==
    \A p \in Procs :
        (pc[p] = "guard" /\ pc'[p] # "guard") =>
            LET r == req[p]
                admitted == pc'[p] = "handler"
                rejected == pc'[p] = "idle" /\ last'.status = "Forbidden"
            IN /\ admitted \/ rejected
               /\ IF r.handlerRoles = NoRoles THEN admitted
                  ELSE admitted <=> r.user \in r.handlerRoles

C13_HandlerRolesDecide == [][C13_HandlerRolesStep]_vars

\* C13, amended: the required roles of a request are those its handler
\* declares, or when the handler declares none those its controller class
\* declares. RolesGuard admits a request with required roles exactly when the
\* request's user has one of them and rejects it with ForbiddenException
\* otherwise (no user, or a role not in the list); it admits every request
\* when neither the handler nor the class declares roles.
C13_RequiredRolesStep ==
    \A p \in Procs :
        (pc[p] = "guard" /\ pc'[p] # "guard") =>
            LET r == req[p]
                declared == IF r.handlerRoles = NoRoles THEN r.classRoles
                            ELSE r.handlerRoles
                admitted == pc'[p] = "handler"
                rejected == pc'[p] = "idle" /\ last'.status = "Forbidden"
            IN /\ admitted \/ rejected
               /\ IF declared = NoRoles THEN admitted
                  ELSE admitted <=> r.user \in declared

C13_RequiredRolesDecide == [][C13_RequiredRolesStep]_vars

\* the guard has admitted a librarian to a handler that declares no roles in
\* a class that requires librarian or admin
C13_Witness ==
    /\ pc["p1"] = "handler"
    /\ req["p1"].op = "guarded"
    /\ req["p1"].handlerRoles = NoRoles
    /\ req["p1"].classRoles = {"librarian", "admin"}
    /\ req["p1"].user = "librarian"

\* SpecConfigs: concurrent requests to every endpoint of the system-config
\* controller, up to MaxRaceTime writes
RaceUpsertWrite(p) == Now(configs) <= MaxRaceTime /\ ConfigUpsertWrite(p)

RaceRestoreDeactivate(p) ==
    Now(configs) <= MaxRaceTime /\ ConfigRestoreDeactivate(p)

RaceRestoreSave(p) == Now(configs) <= MaxRaceTime /\ ConfigRestoreSave(p)

RaceCleanupWrite(p) == Now(configs) <= MaxRaceTime /\ ConfigCleanupWrite(p)

NextConfigs ==
    \E p \in Procs :
        \/ ConfigGet(p)
        \/ ConfigGetFind(p)
        \/ ConfigCreate(p)
        \/ ConfigUpdate(p)
        \/ UploadLogo(p)
        \/ ConfigUpsertFind(p)
        \/ RaceUpsertWrite(p)
        \/ ConfigHistory(p)
        \/ ConfigRestore(p)
        \/ RaceRestoreDeactivate(p)
        \/ RaceRestoreSave(p)
        \/ ConfigCleanup(p)
        \/ RaceCleanupWrite(p)

SpecConfigs == Init /\ [][NextConfigs]_vars

\* C14: only administrators change the system configuration: no step of a
\* request to the system-config controller made by a user whose role is not
\* admin changes the stored configurations or their active flags.
C14_NonAdminStep ==
    \A p \in Procs :
        (pc[p] # "idle" /\ req[p].user # "admin" /\ pc'[p] # pc[p]) =>
            configs' = configs

C14_OnlyAdminsChangeConfigs == [][C14_NonAdminStep]_vars

\* C18: at most one system configuration is active in every reachable state,
\* under any interleaving of concurrent getActiveConfig, createConfig,
\* updateConfig, uploadLogo and restoreConfig requests.
C18_AtMostOneActive == Cardinality(ActiveIds(configs)) <= 1

\* SpecConfigSeq: one request at a time to the system-config controller; no
\* two configurations are ever active then, and cleanupDuplicateConfigs finds
\* nothing to deactivate
NextConfigSeq ==
    \E p \in {"p1"} :
        \/ ConfigGet(p)
        \/ ConfigGetFind(p)
        \/ ConfigCreate(p)
        \/ ConfigUpdate(p)
        \/ UploadLogo(p)
        \/ ConfigUpsertFind(p)
        \/ ConfigUpsertWrite(p)
        \/ ConfigHistory(p)
        \/ ConfigRestore(p)
        \/ ConfigRestoreDeactivate(p)
        \/ ConfigRestoreSave(p)
        \/ ConfigCleanup(p)

SpecConfigSeq == Init /\ [][NextConfigSeq]_vars

\* C16: restoreConfig(id) for an existing configuration makes it active and
\* every other configuration inactive; for an id that matches no
\* configuration it reports NotFound and changes no configuration.
C16_RestoreStep ==
    \A p \in Procs :
        /\ \A configId \in ConfigIdInputs :
              (ConfigRestoreCall(p, "admin", configId)
                  /\ ~Found(configs, configId)) =>
                  (last'.status = "NotFound" /\ configs' = configs)
        /\ (pc[p] = "restoreSave" /\ pc'[p] = "idle") =>
              ActiveIds(configs') = {req[p].id}

C16_RestoreActivatesOne == [][C16_RestoreStep]_vars

\* C17: createConfig creates a new configuration and activates it: after the
\* call the number of stored configurations has grown by one and the newly
\* stored record is the active configuration.
C17_CreateStep ==
    \A p \in Procs :
        (pc[p] = "upsertWrite" /\ req[p].op = "createConfig"
            /\ pc'[p] = "idle") =>
            /\ Cardinality(DOMAIN configs') = Cardinality(DOMAIN configs) + 1
            /\ \E new \in DOMAIN configs' \ DOMAIN configs :
                  ActiveIds(configs') = {new}

C17_CreateAddsActiveConfig == [][C17_CreateStep]_vars

\* SpecCleanup: administrators create and restore configurations
\* concurrently; cleanupDuplicateConfigs starts when no other request is in
\* progress, and no request starts while it runs
NoCleanupRunning == \A q \in Procs : pc[q] # "cleanupWrite"

Quiet(p) == \A q \in Procs \ {p} : pc[q] = "idle"

\* an administrator's createConfig, restoreConfig of a stored configuration
\* and cleanup request
AdminCreate(p) ==
    /\ NoCleanupRunning
    /\ \E title \in Titles : ConfigCreateCall(p, "admin", title)

AdminRestore(p) ==
    /\ NoCleanupRunning
    /\ \E configId \in ConfigIds : ConfigRestoreCall(p, "admin", configId)

QuietCleanup(p) ==
    /\ Quiet(p)
    /\ ConfigCleanupCall(p, "admin")

NextCleanup ==
    \E p \in Procs :
        \/ AdminCreate(p)
        \/ ConfigUpsertWrite(p)
        \/ AdminRestore(p)
        \/ ConfigRestoreDeactivate(p)
        \/ ConfigRestoreSave(p)
        \/ QuietCleanup(p)
        \/ ConfigCleanupWrite(p)

SpecCleanup == Init /\ [][NextCleanup]_vars

\* C15: after cleanupDuplicateConfigs completes with no concurrent writer, at
\* most one configuration is active; if one or more were active before, the
\* one with the most recent updatedAt is still active and every other
\* previously active one is inactive; configurations that were inactive are
\* untouched.
C15_CleanupStep ==
    \A p \in Procs :
        LET completes ==
                \/ pc[p] = "cleanupWrite" /\ pc'[p] = "idle"
                \/ /\ pc[p] = "idle" /\ pc'[p] = "idle"
                   /\ last'.op = "cleanupDuplicateConfigs"
                   /\ last'.status = "ok"
                   /\ ConfigCleanupCall(p, "admin")
            before == {c \in DOMAIN configs : configs[c].active}
            after == {c \in DOMAIN configs' : configs'[c].active}
        IN completes =>
            /\ DOMAIN configs' = DOMAIN configs
            /\ Cardinality(after) <= 1
            /\ before # {} =>
                  \E c \in before :
                      /\ \A d \in before :
                            configs[d].updatedAt <= configs[c].updatedAt
                      /\ after = {c}
                      /\ configs'[c] = configs[c]
            /\ \A c \in DOMAIN configs \ before : configs'[c] = configs[c]

C15_CleanupKeepsLatest == [][C15_CleanupStep]_vars

\* a cleanup has just deactivated one of two active configurations, next to
\* a configuration that was inactive before
C15_Witness ==
    /\ \A p \in Procs : pc[p] = "idle"
    /\ last.op = "cleanupDuplicateConfigs"
    /\ last.status = "ok"
    /\ Cardinality(DOMAIN configs) = 3
    /\ Cardinality(ActiveIds(configs)) = 1
    /\ \E c \in DOMAIN configs \ ActiveIds(configs) :
          /\ configs[c].updatedAt = Now(configs) - 1
          /\ \A d \in DOMAIN configs \ {c} :
                configs[d].updatedAt < configs[c].updatedAt

\* ResourceService.create of the first resource of the catalogue
FirstResourceCreate(p) ==
    /\ nextId.resources = 0
    /\ \E totalQuantity \in 0..MaxQuantity : ResourceCreateCall(p, totalQuantity, TRUE)

\* SpecTally: loan creations, renewals and loan status updates, one request
\* at a time, on a catalogue of one resource
NextTally ==
    \E p \in {"p1"} :
        \/ FirstResourceCreate(p)
        \/ CreateLoanStep(p)
        \/ RenewLoan(p)
        \/ UpdateLoanStatus(p)
        \/ UpdateMultipleLoanStatus(p)

SpecTally == Init /\ [][NextTally]_vars

C20_CreateStep ==
    \A p \in Procs :
        (/\ pc[p] \in {"idle", "loanInsert", "loanStock", "loanRead"}
         /\ pc'[p] = "idle"
         /\ last'.op = "loanCreate"
         /\ last'.status # "ok"
         /\ pc[p] = "idle" => \E personId \in Persons,
                                 resourceId \in ResourceIdInputs,
                                 quantity \in 0..MaxQuantity,
                                 userId \in {MalformedId} \cup Users :
                                  LoanCreateCall(p, personId, resourceId,
                                                 quantity, userId)) =>
            /\ "loanId" \in DOMAIN req[p] => ~Found(loans', req[p].loanId)
            /\ "stockUpdated" \in DOMAIN req[p] => ~req[p].stockUpdated
            /\ pc[p] = "idle" => (loans' = loans /\ resources' = resources)

C20_CreateAllOrNothing == [][C20_CreateStep]_vars

\* ResourceService.create of the first resource, with a copy for every loan
AmpleResourceCreate(p) ==
    /\ nextId.resources = 0
    /\ ResourceCreateCall(p, MaxPersonLoans, TRUE)

\* LoanService.create of one unit of a stored resource
PersonLoanCreate(p) ==
    /\ nextId.loans + Cardinality({q \in Procs : pc[q] = "loanInsert"})
           < MaxPersonLoans
    /\ \E personId \in Persons, resourceId \in DOMAIN resources,
          userId \in Users :
          LoanCreateStart(p, personId, resourceId, 1, userId)

\* SpecLimit: concurrent LoanService.create requests for the loans of one
\* person
NextLimit ==
    \E p \in Procs :
        \/ AmpleResourceCreate(p)
        \/ PersonLoanCreate(p)
        \/ LoanInsert(p)
        \/ LoanStock(p)
        \/ LoanRead(p)

SpecLimit == Init /\ [][NextLimit]_vars

\* C21: no person ever holds more than 3 loans in active status, under any
\* interleaving of concurrent LoanService.create requests for that person.
C21_LoanLimitPerPerson ==
    \A personId \in Persons :
        Cardinality({l \in DOMAIN loans :
                        /\ loans[l].personId = personId
                        /\ loans[l].status = "active"}) <= 3

\* C22: renewLoan succeeds only for a loan whose status is 'active': it then
\* sets dueDate to the previous dueDate plus additionalDays and records
\* renewedBy and renewedAt, leaving the loan's status, quantity and
\* returnedDate and every resource stock counter unchanged; for a loan in any
\* other status it fails with BadRequest and changes nothing. Stated for a
\* stored loan that the request manages to read: the request of an active
\* loan goes on to the update with the new due date, the update writes the
\* three fields and nothing else, and the request of any other loan ends in
\* BadRequest with the loans and the resources as they were.
C22_RenewStep ==
    \A p \in Procs :
        /\ \A id \in LoanIds, additionalDays \in 1..MaxExtension,
              userId \in Users :
              (/\ Found(loans, id)
               /\ RenewLoanCall(p, id, additionalDays, userId)
               /\ ~(pc'[p] = "idle" /\ last'.status = "NotFound"))
              => IF loans[id].status = "active"
                 THEN /\ pc'[p] = "renewUpdate"
                      /\ req'[p].newDueDate = loans[id].dueDate + additionalDays
                 ELSE /\ pc'[p] = "idle"
                      /\ last'.status = "BadRequest"
                      /\ loans' = loans
                      /\ resources' = resources
        /\ (RenewUpdate(p) /\ Found(loans, req[p].id))
           => /\ last'.status = "ok"
              /\ resources' = resources
              /\ DOMAIN loans' = DOMAIN loans
              /\ \A l \in DOMAIN loans \ {req[p].id} : loans'[l] = loans[l]
              /\ LET old == loans[req[p].id]
                     new == loans'[req[p].id]
                 IN /\ new.dueDate = req[p].newDueDate
                    /\ new.renewedBy = req[p].userId
                    /\ new.renewedAt # NullDate
                    /\ new.status = old.status
                    /\ new.quantity = old.quantity
                    /\ new.returnedDate = old.returnedDate

C22_RenewChangesOnlyActiveLoans == [][C22_RenewStep]_vars

\* C23: after ReportsService.updateLoanStatus(l, 'returned') succeeds, loan l
\* carries a return date and is no longer counted as active: it is excluded
\* from countActiveByResource, countActiveByPerson and
\* getTotalQuantityLoanedByResource, which all select loans with
\* returnedDate = null (each of the three gives what it gives on the loans
\* without l).
C23_ReturnedStep ==
    \A p \in Procs, loanId \in LoanIds :
        (Found(loans, loanId) /\ UpdateLoanStatusCall(p, loanId, "returned"))
        => LET others == [l \in DOMAIN loans' \ {loanId} |-> loans'[l]]
               resourceId == loans[loanId].resourceId
               personId == loans[loanId].personId
           IN /\ last'.status = "ok"
              /\ loans'[loanId].returnDate # NullDate
              /\ countActiveByResource(loans', resourceId)
                     = countActiveByResource(others, resourceId)
              /\ countActiveByPerson(loans', personId)
                     = countActiveByPerson(others, personId)
              /\ getTotalQuantityLoanedByResource(loans', resourceId)
                     = getTotalQuantityLoanedByResource(others, resourceId)

C23_ReturnedLoanNotCounted == [][C23_ReturnedStep]_vars

====
